---------------------------- MODULE Spec2Model ----------------------------
(***************************************************************************)
(* A model of pyms (src/pyms.py), a terminal music player.                 *)
(*                                                                         *)
(* Three threads share the display lines i_lines, the current path m_file  *)
(* and the pygame mixer: the key listener (keyboard_listener), the         *)
(* track-end watcher (infinite_queue) and the ticker (poll_interface, on   *)
(* the main thread).  The signal handlers (resize_handler, exit_handler)   *)
(* run on the main thread, between two of its steps.  The code takes no    *)
(* lock, so a step of the model is one access to shared state and the      *)
(* threads' steps interleave freely.                                       *)
(*                                                                         *)
(* Text is modelled as text: a line is a TLA+ string, and the layout       *)
(* functions build the strings the code builds.  A float is modelled by    *)
(* the integers that decide its value: a volume by its mixer level in      *)
(* 0..128 (SDL's MIX_MAX_VOLUME) or by tenths, a fraction by a pair.       *)
(***************************************************************************)
EXTENDS Integers, Sequences, FiniteSets, TLC

VARIABLES
    argv,      \* sys.argv[1:], a sequence of strings
    fs,        \* the file system: the listing of each directory
    m_file,    \* the global m_file: the current path
    i_lines,   \* the global i_lines: a sequence of <<text, centered>>
    music,     \* pygame.mixer.music: [loaded, st, at, pos, vol]
    events,    \* the pygame event queue, a sequence of event types
    term,      \* the terminal: [text, cursor, size]
    pc,        \* the position of each thread
    loc,       \* the local variables of each thread
    sig,       \* the stack of signal handlers running on the main thread
    keys,      \* the keyboard: [held, count] (count: press_or_release)
    proc,      \* the process: "running" or <<"exit", code>>
    budget,    \* the events the environment may still deliver (the model's bound)
    tog,       \* history: the pause toggles the key listener did in a row
    by         \* history: who stored the bar and the status line last

vars == <<argv, fs, m_file, i_lines, music, events, term, pc, loc, sig, keys,
          proc, budget, tog, by>>

---------------------------------------------------------------------------
(* Program constants *)

box_width == 46

\* len(term) of interface(): the ellipsis marker "..."
term_len == 3

\* MIX_MAX_VOLUME: get_volume() returns level/128, set_volume(v) sets
\* int(v * 128)
MixMax == 128

play1 == "██▄▄  "
play2 == "██████"
play3 == "██▀▀  "

paus1 == "██  ██"
paus2 == "██  ██"
paus3 == "██  ██"

---------------------------------------------------------------------------
(* Strings *)

Min(a, b) == IF a < b THEN a ELSE b
Max(a, b) == IF a > b THEN a ELSE b

\* c * n of Python: the string c repeated n times, "" when n <= 0
\* (built from halves, so that a long string needs few nested steps)
RECURSIVE Rep(_, _)
Rep(c, n) ==
    IF n <= 0 THEN ""
    ELSE IF n = 1 THEN c
    ELSE LET half == Rep(c, n \div 2)
         IN  half \o half \o (IF n % 2 = 1 THEN c ELSE "")

\* s[i:j] of Python for 0 <= i, with j clipped to len(s); 0-based, j excluded
Slice(s, i, j) == SubSeq(s, i + 1, Min(j, Len(s)))

\* s[:j] of Python: a negative j counts from the end
SliceTo(s, j) == IF j >= 0 THEN Slice(s, 0, j) ELSE Slice(s, 0, Max(Len(s) + j, 0))

\* s.endswith(suffix)
EndsWith(s, suffix) ==
    /\ Len(s) >= Len(suffix)
    /\ SubSeq(s, Len(s) - Len(suffix) + 1, Len(s)) = suffix

\* str.center(width): CPython pads left with marg/2 + (marg & width & 1)
center(s, width) ==
    IF Len(s) >= width THEN s
    ELSE LET marg == width - Len(s)
             left == (marg \div 2) + (IF marg % 2 = 1 /\ width % 2 = 1 THEN 1 ELSE 0)
         IN  Rep(" ", left) \o s \o Rep(" ", marg - left)

\* str.ljust(width)
ljust(s, width) == s \o Rep(" ", width - Len(s))

\* str.rjust(width)
rjust(s, width) == Rep(" ", width - Len(s)) \o s

\* "{:02d}".format(n) for n >= 0
Fmt02(n) == IF n < 10 THEN "0" \o ToString(n) ELSE ToString(n)

\* the position (1-based) of the last "/" of path, 0 when there is none
RECURSIVE LastSlash(_, _)
LastSlash(path, i) ==
    IF i = 0 THEN 0
    ELSE IF SubSeq(path, i, i) = "/" THEN i ELSE LastSlash(path, i - 1)

---------------------------------------------------------------------------
(* Layout: interface, bar_parser, song_info_parser *)

\* One line of interface() that cuts at the width of the box, not three
\* characters before it
FormatLineLate(tupl, width) ==
    LET w    == Min(box_width, width)
        line == IF Len(tupl[1]) > w
                THEN SliceTo(tupl[1], w) \o "..."
                ELSE tupl[1]
    IN  IF tupl[2] THEN center(line, w) ELSE ljust(line, w)

\* One line of interface(): shorten, center or left justify in the box,
\* center in the terminal
FormatLine(tupl, width) ==
    LET w    == Min(box_width, width)
        line == IF Len(tupl[1]) > w
                THEN SliceTo(tupl[1], w - term_len) \o "..."
                ELSE tupl[1]
    IN  IF tupl[2] THEN center(line, w) ELSE ljust(line, w)

RECURSIVE Body(_, _, _)
Body(lines, width, k) ==
    IF k > Len(lines) THEN ""
    ELSE center(FormatLine(lines[k], width), width) \o "\n" \o Body(lines, width, k + 1)

\* interface(lines) under os.get_terminal_size() = size
interface(lines, size) ==
    Rep("\n", (size.lines \div 2) - (Len(lines) \div 2)) \o Body(lines, size.columns, 1)

\* bar_parser(percentage, max_width), percentage the float num / den
bar_parser(percentage, max_width) ==
    LET bar_width == (percentage[1] * max_width) \div percentage[2]
    IN  Rep("█", bar_width) \o Rep("░", max_width - bar_width)

\* int(volume * 100) of a mixer level, a last digit 9 rounded up
VolumePercent(level) ==
    LET volume == (level * 100) \div MixMax
    IN  IF volume % 10 = 9 THEN volume + 1 ELSE volume

\* song_info_parser(current_secs, total_secs, volume, max_width)
song_info_parser(current_secs, total_secs, level, max_width) ==
    LET current_time == Fmt02(current_secs \div 60) \o ":" \o Fmt02(current_secs % 60)
        total_time   == Fmt02(total_secs \div 60) \o ":" \o Fmt02(total_secs % 60)
        volume       == "Volume: " \o ToString(VolumePercent(level)) \o "%"
    IN  current_time \o " / " \o total_time
          \o rjust(volume, max_width - Len(current_time) - Len(total_time) - 3)

---------------------------------------------------------------------------
(* The file system the program runs in: directories, audio metadata *)

\* os.getcwd()
Cwd == "o"

\* The directories of the model and what each holds
Dirs == {"m", "z", "o", "e"}

Fs0 ==
    [d \in Dirs |->
        CASE d = "m" -> {"a.mp3", "b.wav", "c.ogg", "n.txt"}
          [] d = "z" -> {"s.mp3", "t.ogg", "h.wav"}
          [] d = "o" -> {"u.wav", "n.txt"}
          [] OTHER   -> {"r.txt"}]

\* os.listdir(d)
Listdir(d) == fs[d]

\* os.path.isdir(path)
IsDir(path) == path \in {"m", "z", "o", "e", "m/", "z/", "o/", "e/"}

\* Files the mixer cannot decode: pygame.mixer.music.load raises pygame.error
Loadable(path) == path \in {"m/a.mp3", "m/b.wav", "m/c.ogg", "z/s.mp3", "z/t.ogg", "o/u.wav"}

\* int(mutagen.File(path).info.length): whole seconds; -1 stands for a file
\* mutagen cannot read (mutagen.File returns None or raises)
TotalTime(path) ==
    CASE path = "m/a.mp3" -> 2
      [] path = "m/b.wav" -> 1
      [] path = "m/c.ogg" -> 1
      [] path = "z/s.mp3" -> 1
      [] path = "z/t.ogg" -> 0
      [] path = "o/u.wav" -> 1
      [] OTHER            -> -1

\* The command lines of the model: sys.argv[1:]
ArgvSet == {<<>>, <<"m/a.mp3">>, <<"e/">>, <<"o">>, <<"z/s.mp3">>, <<"z/h.wav">>}

\* The terminal sizes of the model
Sizes == <<[columns |-> 50, lines |-> 14], [columns |-> 20, lines |-> 6]>>

---------------------------------------------------------------------------
(* Track selector: strip_path_from_filename, strip_filename_from_path,
   random_file *)

strip_path_from_filename(path) ==
    SubSeq(path, LastSlash(path, Len(path)) + 1, Len(path))

strip_filename_from_path(path) ==
    IF LastSlash(path, Len(path)) = 0 THEN Cwd
    ELSE SubSeq(path, 1, LastSlash(path, Len(path)))

\* The directory a path of listdir names: a trailing "/" does not count
DirOf(stripped_path) ==
    IF EndsWith(stripped_path, "/")
    THEN SubSeq(stripped_path, 1, Len(stripped_path) - 1)
    ELSE stripped_path

\* os.path.join(a, b) for a relative b
PathJoin(a, b) == IF a = "" \/ EndsWith(a, "/") THEN a \o b ELSE a \o "/" \o b

\* The test without "and file != old_filename"
IsMusicFileAny(file, old_filename) ==
    \/ EndsWith(file, ".mp3")
    \/ EndsWith(file, ".wav")
    \/ EndsWith(file, ".ogg")

\* The test of random_file's loop: a music file other than the old one
IsMusicFile(file, old_filename) ==
    /\ \/ EndsWith(file, ".mp3")
       \/ EndsWith(file, ".wav")
       \/ EndsWith(file, ".ogg")
    /\ file # old_filename

\* music_files of random_file(path) in a directory listing files
music_files(files, old_filename) == {file \in files : IsMusicFile(file, old_filename)}

\* random_file(path): the paths random.choice may return; the empty set
\* stands for the pygame.error raised when music_files is empty
random_file(path) ==
    LET old_filename  == strip_path_from_filename(path)
        stripped_path == strip_filename_from_path(path)
    IN  {PathJoin(stripped_path, f) :
            f \in music_files(Listdir(DirOf(stripped_path)), old_filename)}

\* The path the mixer and mutagen open: a relative name is in the cwd
Resolve(path) == IF LastSlash(path, Len(path)) = 0 THEN PathJoin(Cwd, path) ELSE path

---------------------------------------------------------------------------
(* The playback service: pygame.mixer.music *)

\* pygame.mixer.music.get_busy(): False when stopped or paused
get_busy(mu) == mu.st = "playing"

\* int(pygame.mixer.music.get_pos() / 1000): get_pos() is -1 when no music
\* plays, and int() truncates towards zero
curr_time(mu) == IF mu.st = "stopped" THEN 0 ELSE mu.pos

\* load(path) with no play(): the transport state stays
LoadOnly(mu, path) == [mu EXCEPT !.loaded = path, !.at = 0, !.pos = 0]

\* load(path) then play(): the track starts from 0
LoadPlay(mu, path) == [mu EXCEPT !.loaded = path, !.st = "playing", !.at = 0, !.pos = 0]

\* pause(): only music that plays is paused
Pause(mu) == IF mu.st = "playing" THEN [mu EXCEPT !.st = "paused"] ELSE mu

\* unpause() that resumes nothing
UnpauseNothing(mu) == mu

\* unpause(): only paused music resumes
Unpause(mu) == IF mu.st = "paused" THEN [mu EXCEPT !.st = "playing"] ELSE mu

\* rewind(): the track restarts (at); paused music stays paused, stopped
\* music stays stopped; get_pos() (pos) keeps counting the time played
Rewind(mu) == IF mu.st = "stopped" THEN mu ELSE [mu EXCEPT !.at = 0]

\* stop()
Stop(mu) == [mu EXCEPT !.st = "stopped"]

\* round(v, 1) in tenths, of the volume level / 128: half to even, and the
\* only ties are 0.25 and 0.75
RoundTenths(level) ==
    LET twice == (level * 20) \div MixMax
        exact == (level * 20) % MixMax = 0
        floor == twice \div 2
    IN  IF twice % 2 = 0 THEN floor
        ELSE IF exact /\ floor % 2 = 0 THEN floor
        ELSE floor + 1

\* set_volume(v) for v in tenths: Mix_VolumeMusic(int(v * 128)) ignores a
\* negative level and clips a level above 128
set_volume(mu, tenths) ==
    IF tenths < 0 THEN mu
    ELSE [mu EXCEPT !.vol = Min((tenths * MixMax) \div 10, MixMax)]

---------------------------------------------------------------------------
(* Display state: i_lines, pause_symbol, play_symbol *)

\* i_lines as the module defines it, before main prepends the title
i_lines0 ==
    << <<"", TRUE>>,
       <<Rep("░", box_width), TRUE>>,
       <<"", TRUE>>,
       <<"00:00 " \o Rep(" ", box_width - 12) \o " 00:00", TRUE>>,
       <<"", TRUE>>,
       <<"██████    ██  ██                ██      █ ████", TRUE>>,
       <<"██████    ██  ██    ██████    ██████      ██  ", TRUE>>,
       <<"██████    ██  ██                ██      ████ █", TRUE>>,
       <<"", TRUE>>,
       <<"escape    pause       F8        F9      pg_dwn", TRUE>> >>

\* i_lines[k] = value, k the 0-based index of the code
SetLine(lines, k, value) == [lines EXCEPT ![k + 1] = value]

\* line[0:10] + glyph + line[15:]: the tail starts one column early
SpliceEarly(line, glyph) == Slice(line, 0, 10) \o glyph \o Slice(line, 15, Len(line))

\* line[0:10] + glyph + line[16:]
Splice(line, glyph) == Slice(line, 0, 10) \o glyph \o Slice(line, 16, Len(line))

pause_symbol(lines) ==
    [lines EXCEPT ![7] = <<Splice(lines[7][1], paus1), TRUE>>,
                  ![8] = <<Splice(lines[8][1], paus2), TRUE>>,
                  ![9] = <<Splice(lines[9][1], paus3), TRUE>>]

play_symbol(lines) ==
    [lines EXCEPT ![7] = <<Splice(lines[7][1], play1), TRUE>>,
                  ![8] = <<Splice(lines[8][1], play2), TRUE>>,
                  ![9] = <<Splice(lines[9][1], play3), TRUE>>]

---------------------------------------------------------------------------
(* State *)

\* The execution contexts: the three threads, and the two signal handlers,
\* which run on the main thread while it is suspended
Ctx == {"main", "key", "watch", "winch", "int"}

Keys == {"esc", "pause", "page_down", "f8", "f9", "a"}

\* Bound of the model: the events the environment delivers at most in a
\* run: keyboard events, ticks, ends of track, other pygame events, signals
MaxEvents == 2

Loc0 == [cmd |-> "", old |-> "", total |-> 0, text |-> "", new_vol |-> 0, err |-> ""]

Tog0 == [n |-> 0, vol |-> 0, file |-> "", loaded |-> ""]

\* The process as it starts, with b events to come: main() has not run yet
InitWith(b) ==
    /\ argv \in ArgvSet
    /\ fs = Fs0
    /\ m_file = ""
    /\ i_lines = i_lines0
    /\ music = [loaded |-> "", st |-> "stopped", at |-> 0, pos |-> 0, vol |-> MixMax]
    /\ events = <<>>
    /\ term = [text |-> "", frames |-> 0, cursor |-> TRUE, size |-> Sizes[1]]
    /\ pc = [t \in Ctx |-> IF t = "main" THEN "start" ELSE "off"]
    /\ loc = [t \in Ctx |-> Loc0]
    /\ sig = <<>>
    /\ keys = [held |-> {}, count |-> [k \in Keys |-> 0]]
    /\ proc = "running"
    /\ budget = b
    /\ tog = Tog0
    /\ by = [bar |-> "", info |-> ""]

Init == InitWith(MaxEvents)

Running == proc = "running"

\* The handler on top of the main thread's stack
Top == IF sig = <<>> THEN "none" ELSE sig[Len(sig)]

\* Context t may take a step: the main thread is suspended while a signal
\* handler runs, and of the handlers the one that arrived last runs
CanStep(t) ==
    /\ Running
    /\ CASE t = "main"             -> sig = <<>>
         [] t \in {"winch", "int"} -> Top = t
         [] OTHER                  -> TRUE

\* Where a context waits between two units of work
Home(t) ==
    CASE t = "main" -> "sleep"
      [] t \in {"key", "watch"} -> "wait"
      [] OTHER -> "off"

Goto(t, p) == pc' = [pc EXCEPT ![t] = p]

\* The unit of work of t is over; cmd stays, as the loop's event does
Done(t) ==
    /\ Goto(t, Home(t))
    /\ loc' = [loc EXCEPT ![t] = [Loc0 EXCEPT !.cmd = loc[t].cmd]]
    /\ sig' = IF t \in {"winch", "int"} THEN SubSeq(sig, 1, Len(sig) - 1) ELSE sig

\* An exception nothing catches ends the thread; threading prints the
\* traceback on the terminal
Die(t, err) ==
    /\ Goto(t, "dead")
    /\ loc' = [loc EXCEPT ![t] = [Loc0 EXCEPT !.err = err]]
    /\ term' = [term EXCEPT !.text = @ \o "Traceback: " \o err \o "\n"]

\* os.system("clear")
Cleared(tm) == [tm EXCEPT !.text = "", !.frames = 0]

\* print(text)
Printed(tm, text) == [tm EXCEPT !.text = @ \o text \o "\n"]

\* The history variable tog: the key listener paused music that played
\* (n = 1), and then resumed it (n = 2), with no change of the playback
\* state by another thread or the mixer, and no other command of the key
\* listener, in between
TogNext ==
    tog' =
      IF pc["key"] = "k_pause" /\ pc'["key"] = "sym" /\ music.st = "playing"
      THEN [n |-> 1, vol |-> music.vol, file |-> m_file, loaded |-> music.loaded]
      ELSE IF pc["key"] = "k_unpause" /\ pc'["key"] = "sym" /\ tog.n = 1
      THEN [tog EXCEPT !.n = 2]
      ELSE IF \/ /\ pc'["key"] = pc["key"]
                 /\ \/ m_file' # m_file
                    \/ music'.st # music.st
                    \/ music'.vol # music.vol
                    \/ music'.loaded # music.loaded
              \/ pc["key"] = "wait" /\ pc'["key"] \notin {"wait", "k_busy"}
      THEN Tog0
      ELSE tog

\* The history variable by: the context that stored the progress bar
\* (i_lines[2]) and the one that stored the status line (i_lines[4]) last
ByNext ==
    by' =
      IF \E t \in Ctx : pc[t] = "bar_set" /\ pc'[t] # "bar_set"
      THEN [by EXCEPT !.bar = CHOOSE t \in Ctx : pc[t] = "bar_set" /\ pc'[t] # "bar_set"]
      ELSE IF \E t \in Ctx : pc[t] = "info_set" /\ pc'[t] # "info_set"
      THEN [by EXCEPT !.info = CHOOSE t \in Ctx : pc[t] = "info_set" /\ pc'[t] # "info_set"]
      ELSE by

---------------------------------------------------------------------------
(* main(): start-up *)

\* Lines 457-470: the argument check, and a random file of a directory
MainArgs ==
    /\ CanStep("main") /\ pc["main"] = "start"
    /\ IF Len(argv) # 1
       THEN /\ term' = Printed(term, "Usage: pyms <file>")
            /\ proc' = <<"exit", 1>>
            /\ UNCHANGED <<m_file, pc>>
       ELSE IF IsDir(argv[1])
       THEN LET dir == IF EndsWith(argv[1], "/") THEN argv[1] ELSE argv[1] \o "/"
            IN  IF random_file(dir) = {}
                THEN /\ term' = Printed(term, "No music files found in the directory.")
                     /\ proc' = <<"exit", 1>>
                     /\ UNCHANGED <<m_file, pc>>
                ELSE /\ m_file' \in random_file(dir)
                     /\ Goto("main", "load")
                     /\ UNCHANGED <<term, proc>>
       ELSE /\ m_file' = argv[1]
            /\ Goto("main", "load")
            /\ UNCHANGED <<term, proc>>
    /\ UNCHANGED <<argv, fs, i_lines, music, events, loc, sig, keys, budget>>
    /\ TogNext /\ ByNext

\* Lines 472-487: load and play the file, set the end event, hide the
\* cursor, prepend the title; redraw() follows
MainLoad ==
    /\ CanStep("main") /\ pc["main"] = "load"
    /\ IF Loadable(Resolve(m_file))
       THEN /\ music' = LoadPlay(music, m_file)
            /\ term' = [term EXCEPT !.cursor = FALSE]
            /\ i_lines' = <<<<strip_path_from_filename(m_file), FALSE>>>> \o i_lines
            /\ Goto("main", "clear")
            /\ loc' = [loc EXCEPT !["main"].cmd = "start"]
            /\ UNCHANGED proc
       ELSE /\ term' = Printed(term, "Error: Could not load music file.")
            /\ proc' = <<"exit", 1>>
            /\ UNCHANGED <<music, i_lines, pc, loc>>
    /\ UNCHANGED <<argv, fs, m_file, events, sig, keys, budget>>
    /\ TogNext /\ ByNext

---------------------------------------------------------------------------
(* The steps the threads share: update_bar, update_song_info, the symbols,
   redraw, exit_gracefully *)

\* update_bar, line 288: audio = mutagen.File(m_file)
BarFile(t) ==
    /\ CanStep(t) /\ pc[t] = "bar_file"
    /\ IF TotalTime(Resolve(m_file)) < 0
       THEN Die(t, "MetadataError")
       ELSE /\ Goto(t, "bar_pos")
            /\ loc' = [loc EXCEPT ![t].total = TotalTime(Resolve(m_file))]
            /\ UNCHANGED term
    /\ UNCHANGED <<argv, fs, m_file, i_lines, music, events, sig, keys, proc, budget>>
    /\ TogNext /\ ByNext

\* update_bar, lines 291-299: the position, the division, the bar
BarPos(t) ==
    /\ CanStep(t) /\ pc[t] = "bar_pos"
    /\ IF loc[t].total = 0
       THEN Die(t, "ZeroDivisionError")
       ELSE /\ Goto(t, "bar_set")
            /\ loc' = [loc EXCEPT ![t].text =
                          bar_parser(<<curr_time(music), loc[t].total>>, box_width)]
            /\ UNCHANGED term
    /\ UNCHANGED <<argv, fs, m_file, i_lines, music, events, sig, keys, proc, budget>>
    /\ TogNext /\ ByNext

\* i_lines[2] = (update_bar(), True): the store
BarSet(t) ==
    /\ CanStep(t) /\ pc[t] = "bar_set"
    /\ i_lines' = SetLine(i_lines, 2, <<loc[t].text, TRUE>>)
    /\ Goto(t, "info_file")
    /\ UNCHANGED <<argv, fs, m_file, music, events, term, loc, sig, keys, proc, budget>>
    /\ TogNext /\ ByNext

\* update_song_info, line 307: audio = mutagen.File(m_file)
InfoFile(t) ==
    /\ CanStep(t) /\ pc[t] = "info_file"
    /\ IF TotalTime(Resolve(m_file)) < 0
       THEN Die(t, "MetadataError")
       ELSE /\ Goto(t, "info_pos")
            /\ loc' = [loc EXCEPT ![t].total = TotalTime(Resolve(m_file))]
            /\ UNCHANGED term
    /\ UNCHANGED <<argv, fs, m_file, i_lines, music, events, sig, keys, proc, budget>>
    /\ TogNext /\ ByNext

\* update_song_info, lines 310-315: the position, the volume, the text
InfoPos(t) ==
    /\ CanStep(t) /\ pc[t] = "info_pos"
    /\ loc' = [loc EXCEPT ![t].text =
                  song_info_parser(curr_time(music), loc[t].total, music.vol, box_width)]
    /\ Goto(t, "info_set")
    /\ UNCHANGED <<argv, fs, m_file, i_lines, music, events, term, sig, keys, proc, budget>>
    /\ TogNext /\ ByNext

\* The commands that end with pause_symbol() before redraw()
SymCmds == {"shuffle", "recover", "ended"}

\* i_lines[4] = (update_song_info(), True): the store
InfoSet(t) ==
    /\ CanStep(t) /\ pc[t] = "info_set"
    /\ i_lines' = SetLine(i_lines, 4, <<loc[t].text, TRUE>>)
    /\ Goto(t, IF loc[t].cmd \in SymCmds THEN "sym" ELSE "clear")
    /\ UNCHANGED <<argv, fs, m_file, music, events, term, loc, sig, keys, proc, budget>>
    /\ TogNext /\ ByNext

\* play_symbol() after pause(), pause_symbol() everywhere else
Sym(t) ==
    /\ CanStep(t) /\ pc[t] = "sym"
    /\ i_lines' = IF loc[t].cmd = "pause" THEN play_symbol(i_lines) ELSE pause_symbol(i_lines)
    /\ Goto(t, "clear")
    /\ UNCHANGED <<argv, fs, m_file, music, events, term, loc, sig, keys, proc, budget>>
    /\ TogNext /\ ByNext

\* redraw(), line 92: os.system("clear")
Clear(t) ==
    /\ CanStep(t) /\ pc[t] = "clear"
    /\ term' = Cleared(term)
    /\ Goto(t, "print")
    /\ UNCHANGED <<argv, fs, m_file, i_lines, music, events, loc, sig, keys, proc, budget>>
    /\ TogNext /\ ByNext

\* A terminal size kept from the start of the program
get_terminal_size_cached == Sizes[1]

\* os.get_terminal_size() of interface(), line 206: the size at the call
get_terminal_size == term.size

\* redraw(), line 94: print(interface(i_lines)).  After main's first
\* redraw (lines 488-498) the handlers are installed and the threads start
Paint(t) ==
    /\ CanStep(t) /\ pc[t] = "print"
    /\ term' = [Printed(term, interface(i_lines, get_terminal_size)) EXCEPT !.frames = @ + 1]
    /\ IF loc[t].cmd = "start"
       THEN /\ pc' = [pc EXCEPT !["main"] = "sleep", !["key"] = "wait", !["watch"] = "wait"]
            /\ loc' = [loc EXCEPT ![t] = Loc0]
            /\ UNCHANGED sig
       ELSE Done(t)
    /\ UNCHANGED <<argv, fs, m_file, i_lines, music, events, keys, proc, budget>>
    /\ TogNext /\ ByNext

\* exit_gracefully, line 81: pygame.mixer.music.stop()
ExitStop(t) ==
    /\ CanStep(t) /\ pc[t] = "x_stop"
    /\ music' = Stop(music)
    /\ Goto(t, "x_clear")
    /\ UNCHANGED <<argv, fs, m_file, i_lines, events, term, loc, sig, keys, proc, budget>>
    /\ TogNext /\ ByNext

\* exit_gracefully, line 82: os.system("clear")
ExitClear(t) ==
    /\ CanStep(t) /\ pc[t] = "x_clear"
    /\ term' = Cleared(term)
    /\ Goto(t, "x_show")
    /\ UNCHANGED <<argv, fs, m_file, i_lines, music, events, loc, sig, keys, proc, budget>>
    /\ TogNext /\ ByNext

\* exit_gracefully, lines 83-84: cursor.show() and os._exit(0)
ExitShow(t) ==
    /\ CanStep(t) /\ pc[t] = "x_show"
    /\ term' = [term EXCEPT !.cursor = TRUE]
    /\ proc' = <<"exit", 0>>
    /\ UNCHANGED <<argv, fs, m_file, i_lines, music, events, pc, loc, sig, keys, budget>>
    /\ TogNext /\ ByNext

---------------------------------------------------------------------------
(* keyboard_listener *)

\* The branch of lines 339-398 a key takes
Dispatch(k) ==
    CASE k = "esc"           -> "x_stop"
      [] k = "pause"         -> "k_busy"
      [] k = "page_down"     -> "s_read"
      [] k \in {"f8", "f9"}  -> "v_get"
      [] OTHER               -> "wait"

Cmd(k) ==
    CASE k = "esc"       -> "exit"
      [] k = "page_down" -> "shuffle"
      [] k = "f8"        -> "vdown"
      [] k = "f9"        -> "vup"
      [] OTHER           -> ""

\* Lines 329-337: the next keyboard event; a key that is held repeats its
\* press.  Only an odd count of the key's events is handled
KeyWait(k, kind) ==
    /\ CanStep("key") /\ pc["key"] = "wait"
    /\ budget > 0
    /\ IF kind = "press" THEN k \notin keys.held ELSE k \in keys.held
    /\ keys' = [held  |-> IF kind = "release" THEN keys.held \ {k} ELSE keys.held \cup {k},
                count |-> [keys.count EXCEPT ![k] = @ + 1]]
    /\ budget' = budget - 1
    /\ term' = [term EXCEPT !.text = @ \o Rep(" ", 16) \o "\r"]
    /\ IF keys'.count[k] % 2 = 0
       THEN UNCHANGED <<pc, loc>>
       ELSE /\ Goto("key", Dispatch(k))
            /\ loc' = [loc EXCEPT !["key"].cmd = Cmd(k)]
    /\ UNCHANGED <<argv, fs, m_file, i_lines, music, events, sig, proc>>
    /\ TogNext /\ ByNext

\* Line 345: if pygame.mixer.music.get_busy()
KeyBusy ==
    /\ CanStep("key") /\ pc["key"] = "k_busy"
    /\ Goto("key", IF get_busy(music) THEN "k_pause" ELSE "k_unpause")
    /\ UNCHANGED <<argv, fs, m_file, i_lines, music, events, term, loc, sig, keys, proc, budget>>
    /\ TogNext /\ ByNext

\* Line 346: pygame.mixer.music.pause(); play_symbol() follows
KeyPause ==
    /\ CanStep("key") /\ pc["key"] = "k_pause"
    /\ music' = Pause(music)
    /\ Goto("key", "sym")
    /\ loc' = [loc EXCEPT !["key"].cmd = "pause"]
    /\ UNCHANGED <<argv, fs, m_file, i_lines, events, term, sig, keys, proc, budget>>
    /\ TogNext /\ ByNext

\* Line 349: pygame.mixer.music.unpause(); pause_symbol() follows
KeyUnpause ==
    /\ CanStep("key") /\ pc["key"] = "k_unpause"
    /\ music' = Unpause(music)
    /\ Goto("key", "sym")
    /\ loc' = [loc EXCEPT !["key"].cmd = "resume"]
    /\ UNCHANGED <<argv, fs, m_file, i_lines, events, term, sig, keys, proc, budget>>
    /\ TogNext /\ ByNext

\* Lines 370-371: rewind the current song, then test get_busy()
KeyRewind ==
    /\ CanStep("key") /\ pc["key"] = "e_rewind"
    /\ music' = Rewind(music)
    /\ Goto("key", "e_busy")
    /\ UNCHANGED <<argv, fs, m_file, i_lines, events, term, loc, sig, keys, proc, budget>>
    /\ TogNext /\ ByNext

\* Line 371: if not pygame.mixer.music.get_busy()
KeyRecoverBusy ==
    /\ CanStep("key") /\ pc["key"] = "e_busy"
    /\ IF get_busy(music)
       THEN Done("key")
       ELSE /\ Goto("key", "e_unpause")
            /\ UNCHANGED <<loc, sig>>
    /\ UNCHANGED <<argv, fs, m_file, i_lines, music, events, term, keys, proc, budget>>
    /\ TogNext /\ ByNext

\* Line 372: pygame.mixer.music.unpause(); lines 375-378 follow
KeyRecoverUnpause ==
    /\ CanStep("key") /\ pc["key"] = "e_unpause"
    /\ music' = Unpause(music)
    /\ Goto("key", "bar_file")
    /\ loc' = [loc EXCEPT !["key"].cmd = "recover"]
    /\ UNCHANGED <<argv, fs, m_file, i_lines, events, term, sig, keys, proc, budget>>
    /\ TogNext /\ ByNext

\* Lines 382-383 and 392-393: the volume read, and the new volume in tenths
KeyVolGet ==
    /\ CanStep("key") /\ pc["key"] = "v_get"
    /\ loc' = [loc EXCEPT !["key"].new_vol =
                  RoundTenths(music.vol) + (IF loc["key"].cmd = "vup" THEN 1 ELSE -1)]
    /\ Goto("key", "v_set")
    /\ UNCHANGED <<argv, fs, m_file, i_lines, music, events, term, sig, keys, proc, budget>>
    /\ TogNext /\ ByNext

\* Lines 384 and 394: pygame.mixer.music.set_volume(new_vol)
KeyVolSet ==
    /\ CanStep("key") /\ pc["key"] = "v_set"
    /\ music' = set_volume(music, loc["key"].new_vol)
    /\ Goto("key", "info_file")
    /\ UNCHANGED <<argv, fs, m_file, i_lines, events, term, loc, sig, keys, proc, budget>>
    /\ TogNext /\ ByNext

---------------------------------------------------------------------------
(* The track change of keyboard_listener (lines 355-366) and of
   infinite_queue (lines 418-430) *)

\* A pygame.error that sends every thread to the except branch of the key
\* listener
RaisedRecover(t) ==
    /\ Goto(t, "e_rewind")
    /\ UNCHANGED <<loc, sig>>

\* A pygame.error in the try block: the key listener goes to its except
\* branch, the watcher passes
Raised(t) ==
    IF t = "key"
    THEN /\ Goto(t, "e_rewind")
         /\ UNCHANGED <<loc, sig>>
    ELSE Done(t)

\* m_file = random_file(m_file): the argument is read
ShuffleRead(t) ==
    /\ CanStep(t) /\ pc[t] = "s_read"
    /\ loc' = [loc EXCEPT ![t].old = m_file]
    /\ Goto(t, "s_pick")
    /\ UNCHANGED <<argv, fs, m_file, i_lines, music, events, term, sig, keys, proc, budget>>
    /\ TogNext /\ ByNext

\* m_file = random_file(m_file): the choice, and the store
ShufflePick(t) ==
    /\ CanStep(t) /\ pc[t] = "s_pick"
    /\ IF random_file(loc[t].old) = {}
       THEN /\ Raised(t)
            /\ UNCHANGED m_file
       ELSE /\ m_file' \in random_file(loc[t].old)
            /\ Goto(t, "s_load")
            /\ UNCHANGED <<loc, sig>>
    /\ UNCHANGED <<argv, fs, i_lines, music, events, term, keys, proc, budget>>
    /\ TogNext /\ ByNext

\* pygame.mixer.music.load(m_file) and play()
ShuffleLoad(t) ==
    /\ CanStep(t) /\ pc[t] = "s_load"
    /\ IF Loadable(Resolve(m_file))
       THEN /\ music' = LoadPlay(music, m_file)
            /\ Goto(t, "s_title")
            /\ UNCHANGED <<loc, sig>>
       ELSE /\ Raised(t)
            /\ UNCHANGED music
    /\ UNCHANGED <<argv, fs, m_file, i_lines, events, term, keys, proc, budget>>
    /\ TogNext /\ ByNext

\* i_lines[0] = (strip_path_from_filename(m_file), False)
ShuffleTitle(t) ==
    /\ CanStep(t) /\ pc[t] = "s_title"
    /\ i_lines' = SetLine(i_lines, 0, <<strip_path_from_filename(m_file), FALSE>>)
    /\ Goto(t, "bar_file")
    /\ UNCHANGED <<argv, fs, m_file, music, events, term, loc, sig, keys, proc, budget>>
    /\ TogNext /\ ByNext

---------------------------------------------------------------------------
(* infinite_queue and poll_interface *)

\* Lines 416-417: event = pygame.event.wait(), and its type
WatchWait ==
    /\ CanStep("watch") /\ pc["watch"] = "wait"
    /\ events # <<>>
    /\ events' = Tail(events)
    /\ IF Head(events) = "MUSIC_END"
       THEN /\ Goto("watch", "s_read")
            /\ loc' = [loc EXCEPT !["watch"].cmd = "ended"]
       ELSE UNCHANGED <<pc, loc>>
    /\ UNCHANGED <<argv, fs, m_file, i_lines, music, term, sig, keys, proc, budget>>
    /\ TogNext /\ ByNext

\* Line 445: time.sleep(interval) returns
TickSleep ==
    /\ CanStep("main") /\ pc["main"] = "sleep"
    /\ budget > 0
    /\ budget' = budget - 1
    /\ Goto("main", "bar_file")
    /\ loc' = [loc EXCEPT !["main"].cmd = "tick"]
    /\ UNCHANGED <<argv, fs, m_file, i_lines, music, events, term, sig, keys, proc>>
    /\ TogNext /\ ByNext

---------------------------------------------------------------------------
(* The environment: the mixer's clock, other events, signals *)

\* A second of the track is played
Advance ==
    /\ Running /\ music.st = "playing"
    /\ music.at < TotalTime(Resolve(music.loaded))
    /\ music' = [music EXCEPT !.at = @ + 1, !.pos = @ + 1]
    /\ UNCHANGED <<argv, fs, m_file, i_lines, events, term, pc, loc, sig, keys, proc, budget>>
    /\ TogNext /\ ByNext

\* The track is over: the mixer stops and posts the end event (line 483)
TrackEnd ==
    /\ Running /\ music.st = "playing"
    /\ music.at >= TotalTime(Resolve(music.loaded))
    /\ budget > 0
    /\ music' = [music EXCEPT !.st = "stopped"]
    /\ events' = Append(events, "MUSIC_END")
    /\ budget' = budget - 1
    /\ UNCHANGED <<argv, fs, m_file, i_lines, term, pc, loc, sig, keys, proc>>
    /\ TogNext /\ ByNext

\* Another pygame event arrives in the queue
PostOther ==
    /\ Running /\ pc["watch"] # "off"
    /\ budget > 0
    /\ events' = Append(events, "OTHER")
    /\ budget' = budget - 1
    /\ UNCHANGED <<argv, fs, m_file, i_lines, music, term, pc, loc, sig, keys, proc>>
    /\ TogNext /\ ByNext

\* SIGWINCH (line 489): the terminal has a new size, resize_handler
\* starts redraw() on the main thread
Resize ==
    /\ Running /\ pc["key"] # "off" /\ pc["winch"] = "off"
    /\ budget > 0
    /\ \E i \in 1..Len(Sizes) :
          /\ Sizes[i] # term.size
          /\ term' = [term EXCEPT !.size = Sizes[i]]
    /\ sig' = Append(sig, "winch")
    /\ Goto("winch", "clear")
    /\ budget' = budget - 1
    /\ UNCHANGED <<argv, fs, m_file, i_lines, music, events, loc, keys, proc>>
    /\ TogNext /\ ByNext

\* SIGINT (line 490): exit_handler starts exit_gracefully() on the main
\* thread
SigInt ==
    /\ Running /\ pc["key"] # "off" /\ pc["int"] = "off"
    /\ budget > 0
    /\ sig' = Append(sig, "int")
    /\ Goto("int", "x_stop")
    /\ budget' = budget - 1
    /\ UNCHANGED <<argv, fs, m_file, i_lines, music, events, term, loc, keys, proc>>
    /\ TogNext /\ ByNext

---------------------------------------------------------------------------
(* The specification *)

Step(t) ==
    \/ BarFile(t) \/ BarPos(t) \/ BarSet(t)
    \/ InfoFile(t) \/ InfoPos(t) \/ InfoSet(t)
    \/ Sym(t) \/ Clear(t) \/ Paint(t)

Kinds == {"press", "repeat", "release"}

Next ==
    \/ MainArgs \/ MainLoad \/ TickSleep
    \/ \E t \in {"main", "key", "watch"} : Step(t)
    \/ Clear("winch") \/ Paint("winch")
    \/ \E t \in {"key", "int"} : ExitStop(t) \/ ExitClear(t) \/ ExitShow(t)
    \/ \E k \in Keys, kind \in Kinds : KeyWait(k, kind)
    \/ KeyBusy \/ KeyPause \/ KeyUnpause
    \/ KeyRewind \/ KeyRecoverBusy \/ KeyRecoverUnpause
    \/ KeyVolGet \/ KeyVolSet
    \/ \E t \in {"key", "watch"} :
          ShuffleRead(t) \/ ShufflePick(t) \/ ShuffleLoad(t) \/ ShuffleTitle(t)
    \/ WatchWait
    \/ Advance \/ TrackEnd \/ PostOther \/ Resize \/ SigInt

Spec == Init /\ [][Next]_vars

\* The key listener alone, with the pause key and the volume keys: the
\* events of a longer run are spent on these.  The track plays, and has not
\* ended yet
MaxKeyEvents == 5

PlayKeys == {"pause", "f8", "f9"}

InitKeys == InitWith(MaxKeyEvents)

NextKeys ==
    \/ MainArgs \/ MainLoad
    \/ Clear("main") \/ Paint("main")
    \/ \E k \in PlayKeys, kind \in Kinds : KeyWait(k, kind)
    \/ KeyBusy \/ KeyPause \/ KeyUnpause
    \/ KeyVolGet \/ KeyVolSet
    \/ InfoFile("key") \/ InfoPos("key") \/ InfoSet("key")
    \/ Sym("key") \/ Clear("key") \/ Paint("key")
    \/ Advance

SpecKeys == InitKeys /\ [][NextKeys]_vars

\* The key listener alone, with the pause key and the shuffle key
MaxPlayEvents == 5

ShuffleKeys == {"pause", "page_down"}

InitPlay == InitWith(MaxPlayEvents)

NextPlay ==
    \/ MainArgs \/ MainLoad
    \/ Clear("main") \/ Paint("main")
    \/ \E k \in ShuffleKeys, kind \in Kinds : KeyWait(k, kind)
    \/ KeyBusy \/ KeyPause \/ KeyUnpause
    \/ ShuffleRead("key") \/ ShufflePick("key")
    \/ ShuffleLoad("key") \/ ShuffleTitle("key")
    \/ KeyRewind \/ KeyRecoverBusy \/ KeyRecoverUnpause
    \/ Step("key")
    \/ Advance

SpecPlay == InitPlay /\ [][NextPlay]_vars

\* The watcher alone: ends of track and other pygame events
MaxWatchEvents == 4

InitWatch == InitWith(MaxWatchEvents)

NextWatch ==
    \/ MainArgs \/ MainLoad
    \/ Clear("main") \/ Paint("main")
    \/ WatchWait
    \/ ShuffleRead("watch") \/ ShufflePick("watch")
    \/ ShuffleLoad("watch") \/ ShuffleTitle("watch")
    \/ Step("watch")
    \/ Advance \/ TrackEnd \/ PostOther

SpecWatch == InitWatch /\ [][NextWatch]_vars

\* The ticker and the resize signal
MaxResizeEvents == 3

InitResize == InitWith(MaxResizeEvents)

NextResize ==
    \/ MainArgs \/ MainLoad \/ TickSleep
    \/ BarFile("main") \/ BarPos("main") \/ BarSet("main")
    \/ InfoFile("main") \/ InfoPos("main") \/ InfoSet("main")
    \/ \E t \in {"main", "winch"} : Clear(t) \/ Paint(t)
    \/ Resize
    \/ Advance

SpecResize == InitResize /\ [][NextResize]_vars

\* The volume keys next to the ticker, without the watcher and the
\* signals: a tick, and a volume-up below the full volume, need three events
MaxVolEvents == 3

VolKeys == {"f8", "f9"}

InitVol == InitWith(MaxVolEvents)

NextVol ==
    \/ MainArgs \/ MainLoad \/ TickSleep
    \/ BarFile("main") \/ BarPos("main") \/ BarSet("main")
    \/ \E k \in VolKeys, kind \in Kinds : KeyWait(k, kind)
    \/ KeyVolGet \/ KeyVolSet
    \/ \E t \in {"main", "key"} :
          InfoFile(t) \/ InfoPos(t) \/ InfoSet(t) \/ Clear(t) \/ Paint(t)
    \/ Advance

SpecVol == InitVol /\ [][NextVol]_vars

---------------------------------------------------------------------------
(* random_file alone: every listing of a directory, every current path *)

\* The names a directory of this specification may hold
SelNames == {"a.mp3", "b.wav", "c.ogg", "n.txt", "mp3"}

\* The current paths: the prefix and the name they are made of, the
\* directory random_file has to list, and the prefix of what it returns
SelInputs ==
    { [prefix |-> "m/", name |-> "a.mp3", dir |-> "m", out |-> "m/"],
      [prefix |-> "m/", name |-> "c.ogg", dir |-> "m", out |-> "m/"],
      [prefix |-> "m/", name |-> "n.txt", dir |-> "m", out |-> "m/"],
      [prefix |-> "m/", name |-> "",      dir |-> "m", out |-> "m/"],
      [prefix |-> "",   name |-> "a.mp3", dir |-> "o", out |-> "o/"],
      [prefix |-> "",   name |-> "b.wav", dir |-> "o", out |-> "o/"] }

\* The key listener is about to call random_file(m_file) (line 356)
InitSel ==
    /\ argv = <<>>
    /\ \E in_m \in SUBSET SelNames, in_o \in SUBSET SelNames :
          fs = [d \in Dirs |-> CASE d = "m" -> in_m [] d = "o" -> in_o [] OTHER -> Fs0[d]]
    /\ \E inp \in SelInputs : m_file = inp.prefix \o inp.name
    /\ i_lines = <<<<strip_path_from_filename(m_file), FALSE>>>> \o i_lines0
    /\ music = [loaded |-> m_file, st |-> "playing", at |-> 0, pos |-> 0, vol |-> MixMax]
    /\ events = <<>>
    /\ term = [text |-> "", frames |-> 0, cursor |-> FALSE, size |-> Sizes[1]]
    /\ pc = [t \in Ctx |-> CASE t = "main"  -> "sleep"
                             [] t = "key"   -> "s_read"
                             [] t = "watch" -> "wait"
                             [] OTHER       -> "off"]
    /\ loc = [t \in Ctx |-> IF t = "key" THEN [Loc0 EXCEPT !.cmd = "shuffle"] ELSE Loc0]
    /\ sig = <<>>
    /\ keys = [held |-> {"page_down"}, count |-> [k \in Keys |-> IF k = "page_down" THEN 1 ELSE 0]]
    /\ proc = "running"
    /\ budget = 0
    /\ tog = Tog0
    /\ by = [bar |-> "", info |-> ""]

NextSel == ShuffleRead("key") \/ ShufflePick("key")

SpecSel == InitSel /\ [][NextSel]_vars

---------------------------------------------------------------------------
(* interface alone: every length of the title, every width of the terminal *)

\* The longest title, and the widest terminal, of this specification
MaxTitle == 50
MaxColumns == 48

\* The ticker is about to print(interface(i_lines)) (line 94)
InitBox ==
    /\ argv = <<"m/a.mp3">>
    /\ fs = Fs0
    /\ m_file = "m/a.mp3"
    /\ \E n \in 0..MaxTitle : i_lines = <<<<Rep("t", n), FALSE>>>> \o i_lines0
    /\ music = [loaded |-> m_file, st |-> "playing", at |-> 0, pos |-> 0, vol |-> MixMax]
    /\ events = <<>>
    /\ \E c \in 1..MaxColumns :
          term = [text |-> "", frames |-> 0, cursor |-> FALSE,
                  size |-> [columns |-> c, lines |-> 14]]
    /\ pc = [t \in Ctx |-> CASE t = "main"  -> "print"
                             [] t \in {"key", "watch"} -> "wait"
                             [] OTHER       -> "off"]
    /\ loc = [t \in Ctx |-> IF t = "main" THEN [Loc0 EXCEPT !.cmd = "tick"] ELSE Loc0]
    /\ sig = <<>>
    /\ keys = [held |-> {}, count |-> [k \in Keys |-> 0]]
    /\ proc = "running"
    /\ budget = 0
    /\ tog = Tog0
    /\ by = [bar |-> "", info |-> ""]

NextBox == Paint("main")

SpecBox == InitBox /\ [][NextBox]_vars

---------------------------------------------------------------------------
(* Observations *)

\* The allow-listed extensions
Exts == {".mp3", ".wav", ".ogg"}

\* The files of the directory of input inp that may follow its file
Eligible(inp) ==
    {f \in fs[inp.dir] : (\E e \in Exts : EndsWith(f, e)) /\ f # inp.name}

\* The position of the first line feed of text at or after i; Len + 1
\* when there is none
RECURSIVE LineEnd(_, _)
LineEnd(text, i) ==
    IF i > Len(text) THEN Len(text) + 1
    ELSE IF SubSeq(text, i, i) = "\n" THEN i ELSE LineEnd(text, i + 1)

\* The k-th row of the text from position i on
RECURSIVE NthRow(_, _, _)
NthRow(text, k, i) ==
    IF k = 1 THEN SubSeq(text, i, LineEnd(text, i) - 1)
    ELSE NthRow(text, k - 1, LineEnd(text, i) + 1)

\* s without the spaces around it
RECURSIVE Strip(_)
Strip(s) ==
    IF s = "" THEN s
    ELSE IF SubSeq(s, 1, 1) = " " THEN Strip(SubSeq(s, 2, Len(s)))
    ELSE IF SubSeq(s, Len(s), Len(s)) = " " THEN Strip(SubSeq(s, 1, Len(s) - 1))
    ELSE s

\* The text in the box of the row of the terminal that shows i_lines[k]
\* (1-based), when the terminal shows one frame
BoxText(k) ==
    Strip(NthRow(term.text, Max((term.size.lines \div 2) - (Len(i_lines) \div 2), 0) + k, 1))

\* The threads that run mutate-and-render units
Threads == {"main", "key", "watch"}

\* Thread t is inside a unit: past its dispatch, and not yet back to waiting
InUnit(t) == pc[t] \notin {"off", "start", "load", "sleep", "wait", "dead",
                            "x_stop", "x_clear", "x_show"}
             /\ loc[t].cmd # "start"

\* No thread is inside a unit, and none has died
Quiet == \A t \in Threads : pc[t] \in {"sleep", "wait"}

\* The whole seconds a line of the model can show
Seconds == 0..2

\* The commands whose unit computes both the progress bar and the status
\* line before it draws
BothCmds == {"tick", "shuffle", "recover", "ended"}

\* The status line shows the volume level v
ShowsVolume(status, v) ==
    \E c \in Seconds, t \in Seconds : status = song_info_parser(c, t, v, box_width)

\* The glyph block of the lines is the pause glyph (shown while playing)
PauseGlyph(lines) ==
    /\ Slice(lines[7][1], 10, 16) = paus1
    /\ Slice(lines[8][1], 10, 16) = paus2
    /\ Slice(lines[9][1], 10, 16) = paus3

\* Thread t draws a frame in this step
Paints(t) == pc[t] = "print" /\ pc'[t] # "print"

---------------------------------------------------------------------------
(* Claims *)

\* C1: at most one mutate-and-render unit of the key listener, the watcher
\* and the ticker is in progress at any time.
C1_OneUnitAtATime == Cardinality({t \in Threads : InUnit(t)}) <= 1

\* C2: a frame drawn by a unit that computes the progress bar and the
\* status line (tick, shuffle, track end) shows the bar and the status line
\* that this unit computed.
C2_NoTornFrame ==
    [][\A t \in Threads :
          Paints(t) /\ loc[t].cmd \in BothCmds => by.bar = t /\ by.info = t]_vars

\* C3: when a VolumeUp of the key listener and a tick are both over, the
\* status line shows the volume the mixer holds.
C3_StatusShowsVolume ==
    Quiet /\ loc["key"].cmd = "vup" /\ loc["main"].cmd = "tick"
       => ShowsVolume(i_lines[5][1], music.vol)

\* C4: when the key listener has paused music that played and has resumed
\* it with its next command, the music plays, and the volume, the current
\* path and the loaded file are the ones before the two toggles.
C4_TwoTogglesRestore ==
    tog.n = 2 /\ pc["key"] = "wait"
       => /\ music.st = "playing"
          /\ music.vol = tog.vol
          /\ m_file = tog.file
          /\ music.loaded = tog.loaded
          /\ PauseGlyph(i_lines)

\* Two toggles in a row are over, at a volume below the full one
C4_Witness ==
    tog.n = 2 /\ pc["key"] = "wait" /\ music.vol < MixMax /\ keys.count["pause"] = 3

\* C5: when the watcher has handled a track end for which random_file
\* found a sibling that the mixer loaded, the title differs from the one of
\* the file that ended, the mixer holds the current file, and the glyph is
\* the one shown while playing.
C5_TrackEndedAdvances ==
    [][(/\ loc["watch"].cmd = "ended"
        /\ pc["watch"] \notin {"wait", "s_read", "s_pick", "s_load"}
        /\ pc'["watch"] \in {"wait", "dead"})
         => /\ i_lines'[1][1] # strip_path_from_filename(loc["watch"].old)
            /\ music'.loaded = m_file'
            /\ PauseGlyph(i_lines')]_vars

\* C6: random_file returns a file of the directory of the current path
\* that ends in .mp3, .wav or .ogg and is not the current file, and raises
\* its error exactly when the directory holds no such file.
C6_SiblingOrError ==
    \A inp \in SelInputs :
       pc["key"] \in {"s_load", "e_rewind"} /\ loc["key"].old = inp.prefix \o inp.name
          => IF Eligible(inp) = {}
             THEN pc["key"] = "e_rewind" /\ m_file = loc["key"].old
             ELSE pc["key"] = "s_load" /\ \E f \in Eligible(inp) : m_file = inp.out \o f

\* random_file returned a sibling of a current file the directory holds,
\* next to a file without an allow-listed extension
C6_Witness ==
    /\ pc["key"] = "s_load" /\ loc["key"].old = "m/a.mp3"
    /\ fs["m"] = {"a.mp3", "c.ogg", "n.txt", "mp3"}
    /\ m_file = "m/c.ogg"

\* C7: when the process exits the cursor is visible and no frame is on the
\* terminal.
C7_TerminalRestoredAtExit == proc # "running" => term.cursor /\ term.frames = 0

\* C8: no thread ends with a division by zero.
C8_NoDivisionByZero == \A t \in Threads : loc[t].err # "ZeroDivisionError"

\* Every line of the frame on the terminal that is longer than
\* min(box_width, columns) is shown as a text that ends with "..." and is
\* at most min(box_width, columns) long
Truncated ==
    \A k \in 1..Len(i_lines) :
       Len(i_lines[k][1]) > Min(box_width, term.size.columns)
          => /\ EndsWith(BoxText(k), "...")
             /\ Len(BoxText(k)) <= Min(box_width, term.size.columns)

C10_VolumeHandedInRange == pc["key"] = "v_set" => loc["key"].new_vol \in 0..10

\* C11: the key listener starts a command only on the press of a key that
\* was not held: never on a release, never on a repeated press of a held key.
C11_PressEdgeOnly ==
    [][pc["key"] = "wait" /\ pc'["key"] # "wait"
          => \E k \in Keys : k \notin keys.held /\ keys'.held = keys.held \cup {k}]_vars

\* Thread t ends its unit in this step and goes back to waiting
Ends(t) == InUnit(t) /\ pc'[t] = Home(t)

\* C12: a unit of the key listener or of the ticker, and a unit of the
\* watcher that found a sibling and loaded it, ends with the print of
\* redraw(): its last step is the render.
C12_EndsWithRender ==
    [][\A t \in Threads :
          Ends(t) /\ ~(t = "watch" /\ pc[t] \in {"s_pick", "s_load"})
             => pc[t] = "print"]_vars

\* C13: when random_file found no sibling for a shuffle and the key
\* listener has rewound and resumed the track, the current path is the one
\* before the shuffle and the mixer plays.
C13_NotFoundResumes ==
    [][(/\ pc["key"] = "e_unpause" /\ pc'["key"] # "e_unpause"
        /\ random_file(loc["key"].old) = {})
          => m_file' = loc["key"].old /\ music'.st = "playing"]_vars

\* The key listener loads the sibling it picked in this step
KeyLoads == pc["key"] = "s_load" /\ pc'["key"] = "s_title"

\* C14: when the key listener has loaded the sibling a shuffle picked, the
\* mixer plays it, whether the music played, was paused or had stopped.
C14_ShufflePlays ==
    [][KeyLoads => music'.st = "playing" /\ music'.loaded = m_file]_vars

\* A shuffle that followed a pause has loaded its sibling: the lines still
\* show the glyph of the pause, and the mixer plays
C14_Witness ==
    /\ pc["key"] = "s_title"
    /\ keys.count["pause"] = 1 /\ keys.count["page_down"] = 1
    /\ ~PauseGlyph(i_lines)
    /\ music.st = "playing" /\ music.loaded = m_file

\* C14 as stated: a shuffle of paused music leaves it paused.
C14_ShuffleKeepsPaused ==
    [][KeyLoads /\ music.st = "paused" => music'.st = "paused"]_vars

\* The watcher takes this step
WatchStep == pc'["watch"] # pc["watch"]

WinchStep == pc'["winch"] # pc["winch"]

\* C16: a step of the resize handler leaves the current path, the mixer
\* and the display lines as they are, and every frame that is printed is
\* the one interface() builds for the size the terminal has at that print.
C16_ResizeOnlyRenders ==
    [][/\ WinchStep => UNCHANGED <<m_file, music, i_lines>>
       /\ \A t \in Ctx :
             Paints(t) => term'.text =
                            term.text \o interface(i_lines, term.size) \o "\n"]_vars

\* The terminal was resized before any tick, and the handler has drawn
\* the frame of the new size
C16_Witness ==
    /\ term.size = Sizes[2] /\ sig = <<>> /\ pc["winch"] = "off"
    /\ loc["main"].cmd = "" /\ loc["key"].cmd = "" /\ loc["watch"].cmd = ""
    /\ term.frames = 1
    /\ term.text = interface(i_lines, Sizes[2]) \o "\n"

\* The rows of the glyph in the lines main() has prepended the title to
GlyphRows == {7, 8, 9}

\* The glyph block of the lines is the play glyph (shown while not playing)
PlayGlyph(lines) ==
    /\ Slice(lines[7][1], 10, 16) = play1
    /\ Slice(lines[8][1], 10, 16) = play2
    /\ Slice(lines[9][1], 10, 16) = play3

\* What a glyph row shows left and right of the glyph
Outside(line) == <<Slice(line, 0, 10), Slice(line, 16, Len(line))>>

\* Thread t runs play_symbol() or pause_symbol() in this step
Updates(t) == pc[t] = "sym" /\ pc'[t] = "clear"

\* C17: a call of play_symbol() or pause_symbol() changes no line but the
\* three glyph rows; these keep their length and, outside columns 10..15,
\* the text they had at the start; columns 10..15 hold the glyph of the call.
C17_SymbolUpdatesGlyphOnly ==
    [][\A t \in Threads :
          Updates(t)
             => /\ Len(i_lines') = Len(i_lines)
                /\ \A k \in 1..Len(i_lines) \ GlyphRows : i_lines'[k] = i_lines[k]
                /\ \A k \in GlyphRows :
                      /\ Len(i_lines'[k][1]) = box_width
                      /\ Outside(i_lines'[k][1]) = Outside(i_lines0[k - 1][1])
                      /\ i_lines'[k][2]
                /\ IF loc[t].cmd = "pause"
                   THEN PlayGlyph(i_lines') ELSE PauseGlyph(i_lines')]_vars

\* After the pause_symbol() of a shuffle, the play_symbol() of a pause: the
\* lines show the play glyph
C17_Witness ==
    /\ pc["key"] = "wait"
    /\ keys.count["page_down"] = 1 /\ keys.count["pause"] = 1
    /\ loc["key"].cmd = "pause"
    /\ argv = <<"m/a.mp3">> /\ i_lines[1][1] # "a.mp3"
    /\ PlayGlyph(i_lines)

\* C18: when no unit is in progress and no event waits in the queue, the
\* lines show the pause glyph exactly when the mixer plays, and the play
\* glyph exactly when it does not.
C18_GlyphFollowsPlayState ==
    Quiet /\ events = <<>>
       => /\ PauseGlyph(i_lines) <=> music.st = "playing"
          /\ PlayGlyph(i_lines) <=> music.st # "playing"

\* C19: when no unit is in progress, the current path m_file, the title
\* line and the file the mixer holds name the same file.
C19_OneCurrentFile ==
    Quiet => /\ music.loaded = m_file
             /\ i_lines[1][1] = strip_path_from_filename(m_file)

\* An event leaves the queue in this step
Consumed == Len(events') < Len(events)

\* The watcher starts, and keeps on, handling end events only
WatcherDispatches ==
    /\ pc["watch"] = "wait" /\ WatchStep
          => Consumed /\ Head(events) = "MUSIC_END" /\ pc'["watch"] = "s_read"
    /\ Consumed /\ Head(events) # "MUSIC_END"
          => pc'["watch"] = "wait" /\ UNCHANGED <<m_file, music, i_lines, term>>
    /\ Consumed => events' = Tail(events) /\ pc["watch"] = "wait"

\* C20: the watcher starts a track change for an end event and for no
\* other event, takes one event from the queue at a time, and never stops:
\* no step ends its thread.
C20_WatcherKeepsWaiting ==
    [][WatcherDispatches /\ pc'["watch"] # "dead"]_vars

=============================================================================
